---- MODULE Spec2Model ----
(***************************************************************************)
(* Model of streamlit_app.py: the idle-versus-moving fuel analysis.        *)
(*                                                                         *)
(* The script is re-executed from top to bottom on every interaction; the  *)
(* only state that survives a re-execution is st.session_state.  One       *)
(* action of the model is one execution of the script with the values the  *)
(* widgets return in that execution.                                       *)
(*                                                                         *)
(* Python floats are IEEE-754 binary64 numbers.  They are modelled exactly:*)
(* a finite float is sign * mant * 2^exp with mant an odd natural number   *)
(* of at most Precision bits, kept as a sequence of limbs because the      *)
(* significand does not fit the integers of the model checker.  Every      *)
(* arithmetic operation computes the exact result and rounds it to nearest,*)
(* ties to even, as the hardware does.                                     *)
(***************************************************************************)
EXTENDS Integers, Sequences, FiniteSets, TLC

(***************************************************************************)
(* Natural numbers of arbitrary size: little-endian sequences of limbs in  *)
(* base 2^15, without high zero limbs; <<>> is zero.                       *)
(***************************************************************************)
Base == 2^15

Limb(a, i) == IF i <= Len(a) THEN a[i] ELSE 0

RECURSIVE BStrip(_)
BStrip(a) ==
    IF a = <<>> THEN <<>>
    ELSE IF a[Len(a)] = 0 THEN BStrip(SubSeq(a, 1, Len(a) - 1))
    ELSE a

RECURSIVE BFromNat(_)
BFromNat(n) == IF n = 0 THEN <<>> ELSE <<n % Base>> \o BFromNat(n \div Base)

RECURSIVE BAddFrom(_, _, _, _)
BAddFrom(a, b, i, c) ==
    IF i > Len(a) /\ i > Len(b)
    THEN (IF c = 0 THEN <<>> ELSE <<c>>)
    ELSE LET t == Limb(a, i) + Limb(b, i) + c
         IN  <<t % Base>> \o BAddFrom(a, b, i + 1, t \div Base)

BAdd(a, b) == BAddFrom(a, b, 1, 0)

\* a - b for a >= b
RECURSIVE BSubFrom(_, _, _, _)
BSubFrom(a, b, i, c) ==
    IF i > Len(a) THEN <<>>
    ELSE LET t == a[i] - Limb(b, i) - c
         IN  IF t < 0 THEN <<t + Base>> \o BSubFrom(a, b, i + 1, 1)
             ELSE <<t>> \o BSubFrom(a, b, i + 1, 0)

BSub(a, b) == BStrip(BSubFrom(a, b, 1, 0))

\* -1, 0 or 1 as a < b, a = b or a > b
RECURSIVE BCmpFrom(_, _, _)
BCmpFrom(a, b, i) ==
    IF i = 0 THEN 0
    ELSE IF a[i] < b[i] THEN -1
    ELSE IF a[i] > b[i] THEN 1
    ELSE BCmpFrom(a, b, i - 1)

BCmp(a, b) ==
    IF Len(a) < Len(b) THEN -1
    ELSE IF Len(a) > Len(b) THEN 1
    ELSE BCmpFrom(a, b, Len(a))

\* a * x for one limb x
RECURSIVE BMulLimbFrom(_, _, _, _)
BMulLimbFrom(a, x, i, c) ==
    IF i > Len(a) THEN (IF c = 0 THEN <<>> ELSE <<c>>)
    ELSE LET t == a[i] * x + c
         IN  <<t % Base>> \o BMulLimbFrom(a, x, i + 1, t \div Base)

BMulLimb(a, x) == IF x = 0 THEN <<>> ELSE BMulLimbFrom(a, x, 1, 0)

RECURSIVE BMulFrom(_, _, _)
BMulFrom(a, b, j) ==
    IF j > Len(b) THEN <<>>
    ELSE BAdd(BMulLimb(a, b[j]), <<0>> \o BMulFrom(a, b, j + 1))

BMul(a, b) ==
    IF a = <<>> \/ b = <<>> THEN <<>>
    ELSE IF Len(a) >= Len(b) THEN BStrip(BMulFrom(a, b, 1))
    ELSE BStrip(BMulFrom(b, a, 1))

Zeros(n) == [i \in 1..n |-> 0]

\* a * 2^k
BShl(a, k) ==
    IF a = <<>> THEN <<>>
    ELSE Zeros(k \div 15) \o BMulLimb(a, 2^(k % 15))

\* <<floor(a / d), a mod d>> for one limb d > 0, limbs 1..i of a, r carried in
RECURSIVE BDivLimbFrom(_, _, _, _)
BDivLimbFrom(a, d, i, r) ==
    IF i = 0 THEN <<<<>>, r>>
    ELSE LET t   == r * Base + a[i]
             low == BDivLimbFrom(a, d, i - 1, t % d)
         IN  <<Append(low[1], t \div d), low[2]>>

BDivLimb(a, d) ==
    LET qr == BDivLimbFrom(a, d, Len(a), 0) IN <<BStrip(qr[1]), qr[2]>>

\* floor(a / 2^k)
BShr(a, k) ==
    IF k \div 15 >= Len(a) THEN <<>>
    ELSE BDivLimb(SubSeq(a, k \div 15 + 1, Len(a)), 2^(k % 15))[1]

\* number of bits of one limb
RECURSIVE LimbBitLen(_)
LimbBitLen(x) == IF x = 0 THEN 0 ELSE 1 + LimbBitLen(x \div 2)

BBitLen(a) == IF a = <<>> THEN 0 ELSE 15 * (Len(a) - 1) + LimbBitLen(a[Len(a)])

\* number of trailing zero bits of a > 0
RECURSIVE LimbTz(_)
LimbTz(x) == IF x % 2 = 1 THEN 0 ELSE 1 + LimbTz(x \div 2)

RECURSIVE BTzFrom(_, _)
BTzFrom(a, i) == IF a[i] = 0 THEN 15 + BTzFrom(a, i + 1) ELSE LimbTz(a[i])

BTz(a) == BTzFrom(a, 1)

BIsOdd(a) == a /= <<>> /\ a[1] % 2 = 1

(***************************************************************************)
(* Long division (Knuth's algorithm D).  d has at least two limbs and its  *)
(* top limb is at least Base/2; r < d is the running remainder.            *)
(***************************************************************************)
RECURSIVE QFix(_, _, _)
QFix(d, r, q) == IF BCmp(BMulLimb(d, q), r) > 0 THEN QFix(d, r, q - 1) ELSE q

QDigit(d, r) ==
    LET n == Len(d)
    IN  IF Len(r) < n THEN 0
        ELSE LET top == Limb(r, n + 1) * Base + r[n]
                 est == top \div d[n]
             IN  QFix(d, r, IF est > Base - 1 THEN Base - 1 ELSE est)

RECURSIVE BDivLongFrom(_, _, _, _)
BDivLongFrom(a, d, i, r) ==
    IF i = 0 THEN <<<<>>, r>>
    ELSE LET r2  == BStrip(<<a[i]>> \o r)
             q   == QDigit(d, r2)
             low == BDivLongFrom(a, d, i - 1, BSub(r2, BMulLimb(d, q)))
         IN  <<Append(low[1], q), low[2]>>

\* <<floor(a / d), TRUE iff d divides a>> for d > 0
BDiv(a, d) ==
    IF Len(d) = 1
    THEN LET qr == BDivLimb(a, d[1]) IN <<qr[1], qr[2] = 0>>
    ELSE LET sh == 15 - LimbBitLen(d[Len(d)])
             an == BShl(a, sh)
             dn == BShl(d, sh)
             qr == BDivLongFrom(an, dn, Len(an), <<>>)
         IN  <<BStrip(qr[1]), qr[2] = <<>>>>

(***************************************************************************)
(* Python floats.  A finite float is [inf |-> FALSE, neg, mant, exp] and   *)
(* stands for (-1)^neg * mant * 2^exp with mant odd, or mant = <<>> and    *)
(* exp = 0 for zero; float('inf') is PosInf.  Two floats are the same      *)
(* binary64 number iff they are the same record.  Results underflow        *)
(* gradually, down to 0.0; no operation on the inputs of the               *)
(* specifications below exceeds the largest float.                         *)
(***************************************************************************)
Precision == 53

PosInf == [inf |-> TRUE, neg |-> FALSE, mant |-> <<>>, exp |-> 0]

FZero(neg) == [inf |-> FALSE, neg |-> neg, mant |-> <<>>, exp |-> 0]

\* the float (-1)^neg * m * 2^e for m of at most Precision bits
FMake(neg, m, e) ==
    IF m = <<>> THEN FZero(neg)
    ELSE LET tz == BTz(m)
         IN  [inf |-> FALSE, neg |-> neg, mant |-> BShr(m, tz), exp |-> e + tz]

\* the exponent of the smallest positive float, 5e-324 = 2^-1074: below
\* 2^-1022 the floats are the multiples of it (gradual underflow)
MinExp == -1074

MinFloat == [inf |-> FALSE, neg |-> FALSE, mant |-> <<1>>, exp |-> MinExp]

\* (m + f) * 2^e rounded to nearest, ties to even, where 0 <= f < 1 and
\* f > 0 iff sticky; sticky only with more than Precision bits in m.  The
\* result keeps Precision bits, fewer where that would go below 2^MinExp,
\* and is zero when the value is at most half of 2^MinExp.
FRound(neg, m, e, sticky) ==
    LET over  == BBitLen(m) - Precision
        under == MinExp - e
        drop  == IF over > under THEN over ELSE under
    IN  IF drop <= 0 THEN FMake(neg, m, e)
        ELSE LET q    == BShr(m, drop)
                 rest == BSub(m, BShl(q, drop))
                 c    == BCmp(rest, BShl(<<1>>, drop - 1))
                 up   == c > 0 \/ (c = 0 /\ (sticky \/ BIsOdd(q)))
             IN  FMake(neg, IF up THEN BAdd(q, <<1>>) ELSE q, e + drop)

\* int -> float, exact for every integer of the model
FromInt(n) == IF n < 0 THEN FMake(TRUE, BFromNat(-n), 0) ELSE FMake(FALSE, BFromNat(n), 0)

\* x * y
FMul(x, y) ==
    IF x.mant = <<>> \/ y.mant = <<>> THEN FZero(x.neg /= y.neg)
    ELSE FRound(x.neg /= y.neg, BMul(x.mant, y.mant), x.exp + y.exp, FALSE)

\* x / y for y /= 0: the quotient of the significands is taken to
\* Precision + 2 or Precision + 3 bits, the remainder is the sticky bit
FDiv(x, y) ==
    IF x.mant = <<>> THEN FZero(x.neg /= y.neg)
    ELSE LET k  == Precision + 2 + BBitLen(y.mant) - BBitLen(x.mant)
             qr == BDiv(BShl(x.mant, k), y.mant)
         IN  FRound(x.neg /= y.neg, qr[1], x.exp - y.exp - k, ~qr[2])

\* the position above the leading bit of a finite x /= 0
FTop(x) == x.exp + BBitLen(x.mant)

\* x + y; a term below a quarter of the last place of the other one does
\* not change it
FAdd(x, y) ==
    IF x.mant = <<>> /\ y.mant = <<>> THEN FZero(x.neg /\ y.neg)
    ELSE IF x.mant = <<>> THEN y
    ELSE IF y.mant = <<>> THEN x
    ELSE IF FTop(y) < FTop(x) - Precision - 2 THEN x
    ELSE IF FTop(x) < FTop(y) - Precision - 2 THEN y
    ELSE LET e  == IF x.exp < y.exp THEN x.exp ELSE y.exp
             mx == BShl(x.mant, x.exp - e)
             my == BShl(y.mant, y.exp - e)
             c  == BCmp(mx, my)
         IN  IF x.neg = y.neg THEN FRound(x.neg, BAdd(mx, my), e, FALSE)
             ELSE IF c = 0 THEN FZero(FALSE)
             ELSE IF c > 0 THEN FRound(x.neg, BSub(mx, my), e, FALSE)
             ELSE FRound(y.neg, BSub(my, mx), e, FALSE)

FNeg(x) == [x EXCEPT !.neg = ~x.neg]

\* x - y
FSub(x, y) == FAdd(x, FNeg(y))

\* -1, 0 or 1 as x < y, x = y or x > y, for finite x and y
FCmp(x, y) ==
    LET d == FSub(x, y)
    IN  IF d.mant = <<>> THEN 0 ELSE IF d.neg THEN -1 ELSE 1

FIsZero(x) == ~x.inf /\ x.mant = <<>>
FGtZero(x) == x.inf \/ (x.mant /= <<>> /\ ~x.neg)
FLeZero(x) == ~FGtZero(x)

\* a / b for Python ints, b /= 0: the correctly rounded quotient
IntTrueDiv(a, b) == FDiv(FromInt(a), FromInt(b))

\* the float a decimal literal or a typed number n / 10^d denotes
FromDecimal(n, d) == IntTrueDiv(n, 10^d)

(***************************************************************************)
(* Strings are sequences of one-character strings.  re.search is modelled  *)
(* as the backtracking matcher it is: the leftmost start position at which *)
(* the pattern matches, every quantifier greedy.                           *)
(***************************************************************************)
IsDigit(c) == c \in {"0", "1", "2", "3", "4", "5", "6", "7", "8", "9"}

IsSpace(c) == c \in {" ", "\t", "\n", "\r", "\f"}

DigitValue(c) ==
    CASE c = "0" -> 0 [] c = "1" -> 1 [] c = "2" -> 2 [] c = "3" -> 3 [] c = "4" -> 4
      [] c = "5" -> 5 [] c = "6" -> 6 [] c = "7" -> 7 [] c = "8" -> 8 [] c = "9" -> 9

\* int(text) for a string of digits
RECURSIVE IntOf(_)
IntOf(w) ==
    IF w = <<>> THEN 0
    ELSE IntOf(SubSeq(w, 1, Len(w) - 1)) * 10 + DigitValue(w[Len(w)])

Lit(c) == [kind |-> "lit", ch |-> c, min |-> 1, group |-> 0]
DigitsPlus(g) == [kind |-> "digit", ch |-> "", min |-> 1, group |-> g]
SpacesStar == [kind |-> "space", ch |-> "", min |-> 0, group |-> 0]

\* r'\((\d+)D,\s*(\d+)H,\s*(\d+)M\)'
pattern ==
    << Lit("("), DigitsPlus(1), Lit("D"), Lit(","), SpacesStar,
       DigitsPlus(2), Lit("H"), Lit(","), SpacesStar,
       DigitsPlus(3), Lit("M"), Lit(")") >>

InClass(c, kind) == IF kind = "digit" THEN IsDigit(c) ELSE IsSpace(c)

\* length of the longest run of characters of the class from position i
RECURSIVE RunLength(_, _, _)
RunLength(s, i, kind) ==
    IF i <= Len(s) /\ InClass(s[i], kind) THEN 1 + RunLength(s, i + 1, kind) ELSE 0

NoMatch == [ok |-> FALSE, groups |-> << <<>>, <<>>, <<>> >>]

\* match pattern[p..] at position i; a quantifier takes n characters, then
\* fewer if the rest of the pattern fails
RECURSIVE MatchFrom(_, _, _), MatchRepeat(_, _, _, _)
MatchFrom(s, i, p) ==
    IF p > Len(pattern) THEN [ok |-> TRUE, groups |-> << <<>>, <<>>, <<>> >>]
    ELSE IF pattern[p].kind = "lit"
    THEN IF i <= Len(s) /\ s[i] = pattern[p].ch THEN MatchFrom(s, i + 1, p + 1) ELSE NoMatch
    ELSE MatchRepeat(s, i, p, RunLength(s, i, pattern[p].kind))

MatchRepeat(s, i, p, n) ==
    IF n < pattern[p].min THEN NoMatch
    ELSE LET rest == MatchFrom(s, i + n, p + 1)
         IN  IF ~rest.ok THEN MatchRepeat(s, i, p, n - 1)
             ELSE IF pattern[p].group = 0 THEN rest
             ELSE [rest EXCEPT !.groups[pattern[p].group] = SubSeq(s, i, i + n - 1)]

\* the match m found at position i if there is one, else the search goes on
\* from i + 1, up to the empty suffix
RECURSIVE SearchFrom(_, _), SearchOn(_, _, _)
SearchFrom(s, i) ==
    IF i > Len(s) + 1 THEN NoMatch ELSE SearchOn(s, i, MatchFrom(s, i, 1))

SearchOn(s, i, m) == IF m.ok THEN m ELSE SearchFrom(s, i + 1)

re_search(s) == SearchFrom(s, 1)

\* Python's None and the ints a function returns in its place
None == [none |-> TRUE, val |-> 0]
IntValue(n) == [none |-> FALSE, val |-> n]

\* TotalMinutes with the hours taken on a 24-hour clock
TotalMinutesClock(match) ==
    LET days    == IntOf(match.groups[1])
        hours   == IntOf(match.groups[2]) % 24
        minutes == IntOf(match.groups[3])
    IN  IF match.ok THEN IntValue(days * 24 * 60 + hours * 60 + minutes) ELSE None

\* TotalMinutes with no match read as no time at all
TotalMinutesOrZero(match) ==
    LET days    == IntOf(match.groups[1])
        hours   == IntOf(match.groups[2])
        minutes == IntOf(match.groups[3])
    IN  IF match.ok THEN IntValue(days * 24 * 60 + hours * 60 + minutes) ELSE IntValue(0)

\* lines 21-24
TotalMinutes(match) ==
    LET days    == IntOf(match.groups[1])
        hours   == IntOf(match.groups[2])
        minutes == IntOf(match.groups[3])
    IN  IF match.ok THEN IntValue(days * 24 * 60 + hours * 60 + minutes) ELSE None

parse_time_string(time_str) == TotalMinutes(re_search(time_str))

(***************************************************************************)
(* The state.  ss is st.session_state.  inp holds the values the widgets   *)
(* returned in the last execution of the script and button what           *)
(* st.button returned in it; errors, computed and tabs record what that    *)
(* execution did: the st.error messages in order, whether the computation  *)
(* block ran to its end, whether the result tabs were rendered.  failed is *)
(* history: whether some execution since the page was loaded has reported  *)
(* an error.  edits counts the changes the user has made.  text and parsed *)
(* belong to the specification of parse_time_string alone: a text being    *)
(* typed and the result of the call of parse_time_string on it.            *)
(***************************************************************************)
VARIABLES ss, inp, button, errors, failed, computed, tabs, edits, text, parsed

vars == <<ss, inp, button, errors, failed, computed, tabs, edits, text, parsed>>

F0 == FZero(FALSE)

\* lines 85-128: the record a new session starts with
InitialSession ==
    [ calculado                |-> FALSE,
      idle_minutes             |-> 0,
      moving_minutes           |-> 0,
      total_minutes            |-> 0,
      idle_percentage          |-> F0,
      moving_percentage        |-> F0,
      combustible_ralenti      |-> F0,
      combustible_movimiento   |-> F0,
      costo_ralenti            |-> F0,
      costo_movimiento         |-> F0,
      costo_total              |-> F0,
      merma_total              |-> F0,
      merma_diaria             |-> F0,
      merma_semanal            |-> F0,
      merma_mensual            |-> F0,
      merma_anual              |-> F0,
      merma_total_unit         |-> F0,
      merma_diaria_unit        |-> F0,
      merma_semanal_unit       |-> F0,
      merma_mensual_unit       |-> F0,
      merma_anual_unit         |-> F0,
      ahorro_anual             |-> F0,
      costo_total_barras       |-> F0,
      neto_mensual             |-> F0,
      neto_anual               |-> F0,
      ahorro_mensual           |-> F0,
      meses_para_recuperar     |-> F0,
      roi_days                 |-> F0,
      combustible_total        |-> F0,
      real_idle_percentage     |-> FromInt(100),
      costo_ralenti_real_unit  |-> F0,
      merma_diaria_real_unit   |-> F0,
      merma_semanal_real_unit  |-> F0,
      merma_mensual_real_unit  |-> F0,
      merma_anual_real_unit    |-> F0,
      costo_ralenti_real_fleet |-> F0,
      merma_diaria_real_fleet  |-> F0,
      merma_semanal_real_fleet |-> F0,
      merma_mensual_real_fleet |-> F0,
      merma_anual_real_fleet   |-> F0,
      renta_mensual            |-> FromDecimal(99900, 2) ]

\* line 196; dates are day numbers
duration_days(w) == (w.end_date - w.start_date) + 1

(***************************************************************************)
(* Lines 266-330: the computation.  c is the record of the local variables *)
(* assigned so far; each definition below is a group of assignments whose  *)
(* right-hand sides read only the widget values w and earlier locals, and  *)
(* returns c extended with the locals it assigns.  An int meeting a float  *)
(* is converted first.                                                     *)
(***************************************************************************)
\* line 266
Minutes(idle_minutes, moving_minutes) ==
    [ idle_minutes   |-> idle_minutes,
      moving_minutes |-> moving_minutes,
      total_minutes  |-> idle_minutes + moving_minutes ]

\* lines 272-273
Percentages(c) ==
    c @@ [ idle_percentage   |-> FMul(IntTrueDiv(c.idle_minutes, c.total_minutes), FromInt(100)),
           moving_percentage |-> FMul(IntTrueDiv(c.moving_minutes, c.total_minutes), FromInt(100)) ]

\* lines 276-277
Fuel(w, c) ==
    c @@ [ combustible_ralenti    |-> FMul(FDiv(c.idle_percentage, FromInt(100)), w.combustible_total),
           combustible_movimiento |-> FMul(FDiv(c.moving_percentage, FromInt(100)), w.combustible_total) ]

\* Costs with the cost of moving taken as the rest of the total cost
CostsComplement(w, c) ==
    c @@ [ costo_ralenti    |-> FMul(c.combustible_ralenti, w.precio_litro),
           costo_movimiento |-> FSub(FMul(w.combustible_total, w.precio_litro),
                                     FMul(c.combustible_ralenti, w.precio_litro)),
           costo_total      |-> FMul(w.combustible_total, w.precio_litro) ]

\* lines 280-282
Costs(w, c) ==
    c @@ [ costo_ralenti    |-> FMul(c.combustible_ralenti, w.precio_litro),
           costo_movimiento |-> FMul(c.combustible_movimiento, w.precio_litro),
           costo_total      |-> FMul(w.combustible_total, w.precio_litro) ]

\* MermaTotal with the fleet total left at the figure of one unit
MermaTotalOneUnit(w, c) ==
    c @@ [ merma_total      |-> c.costo_ralenti,
           merma_total_unit |-> c.costo_ralenti ]

\* lines 285 and 294
MermaTotal(w, c) ==
    c @@ [ merma_total      |-> FMul(c.costo_ralenti, FromInt(w.num_unidades)),
           merma_total_unit |-> c.costo_ralenti ]

\* lines 288 and 295
MermaDiaria(w, c) ==
    c @@ [ merma_diaria      |-> FDiv(c.merma_total, FromInt(duration_days(w))),
           merma_diaria_unit |-> FDiv(c.merma_total_unit, FromInt(duration_days(w))) ]

\* MermaEscalada with the year taken as twelve months of thirty days
MermaEscaladaTwelveMonths(c) ==
    c @@ [ merma_semanal      |-> FMul(c.merma_diaria, FromInt(7)),
           merma_mensual      |-> FMul(c.merma_diaria, FromInt(30)),
           merma_anual        |-> FMul(FMul(c.merma_diaria, FromInt(30)), FromInt(12)),
           merma_semanal_unit |-> FMul(c.merma_diaria_unit, FromInt(7)),
           merma_mensual_unit |-> FMul(c.merma_diaria_unit, FromInt(30)),
           merma_anual_unit   |-> FMul(FMul(c.merma_diaria_unit, FromInt(30)), FromInt(12)) ]

\* lines 289-291 and 296-298
MermaEscalada(c) ==
    c @@ [ merma_semanal      |-> FMul(c.merma_diaria, FromInt(7)),
           merma_mensual      |-> FMul(c.merma_diaria, FromInt(30)),
           merma_anual        |-> FMul(c.merma_diaria, FromInt(365)),
           merma_semanal_unit |-> FMul(c.merma_diaria_unit, FromInt(7)),
           merma_mensual_unit |-> FMul(c.merma_diaria_unit, FromInt(30)),
           merma_anual_unit   |-> FMul(c.merma_diaria_unit, FromInt(365)) ]

\* Ahorro without the share of idling that counts as loss
AhorroSinRalentiReal(w, c) ==
    c @@ [ ahorro_anual       |-> FMul(c.merma_anual, IntTrueDiv(w.porcentaje_reduccion, 100)),
           costo_total_barras |-> FMul(w.costo_por_pieza, FromInt(w.num_unidades)) ]

\* Ahorro with the reduction taken as the share of the loss that remains
AhorroPorcentajeRestante(w, c) ==
    c @@ [ ahorro_anual       |-> FMul(FMul(c.merma_anual, IntTrueDiv(100 - w.porcentaje_reduccion, 100)),
                                       IntTrueDiv(w.porcentaje_ralenti_real, 100)),
           costo_total_barras |-> FMul(w.costo_por_pieza, FromInt(w.num_unidades)) ]

\* lines 302 and 305
Ahorro(w, c) ==
    c @@ [ ahorro_anual       |-> FMul(FMul(c.merma_anual, IntTrueDiv(w.porcentaje_reduccion, 100)),
                                       IntTrueDiv(w.porcentaje_ralenti_real, 100)),
           costo_total_barras |-> FMul(w.costo_por_pieza, FromInt(w.num_unidades)) ]

\* line 308
AhorroMensual(c) ==
    c @@ [ ahorro_mensual |-> FDiv(c.ahorro_anual, FromInt(12)) ]

\* Neto with the annual rent of one unit only
NetoRentaDeUnaUnidad(w, c) ==
    c @@ [ neto_mensual |-> FSub(c.ahorro_mensual, FMul(w.renta_mensual, FromInt(w.num_unidades))),
           neto_anual   |-> FSub(c.ahorro_anual, FMul(w.renta_mensual, FromInt(12))) ]

\* lines 314 and 330
Neto(w, c) ==
    c @@ [ neto_mensual |-> FSub(c.ahorro_mensual, FMul(w.renta_mensual, FromInt(w.num_unidades))),
           neto_anual   |-> FSub(c.ahorro_anual,
                                 FMul(FMul(w.renta_mensual, FromInt(12)), FromInt(w.num_unidades))) ]

\* Roi with 0 in place of float('inf')
RoiCeroSiNoRecuperable(c) ==
    c @@ [ ZeroDivisionError    |-> FALSE,
           meses_para_recuperar |-> IF FGtZero(c.neto_mensual)
                                    THEN FDiv(c.costo_total_barras, c.neto_mensual)
                                    ELSE F0,
           roi_days             |-> IF FGtZero(c.neto_mensual)
                                    THEN FDiv(c.costo_total_barras, FDiv(c.neto_mensual, FromInt(30)))
                                    ELSE F0 ]

\* Roi with the days counted on a year of 365 days
RoiDiasDelAnio(c) ==
    c @@ [ ZeroDivisionError    |-> FALSE,
           meses_para_recuperar |-> IF FGtZero(c.neto_mensual)
                                    THEN FDiv(c.costo_total_barras, c.neto_mensual)
                                    ELSE PosInf,
           roi_days             |-> IF FGtZero(c.neto_mensual)
                                    THEN FDiv(c.costo_total_barras,
                                              FDiv(FMul(c.neto_mensual, FromInt(12)), FromInt(365)))
                                    ELSE PosInf ]

\* line 324
ahorro_neto_diario(c) == FDiv(c.neto_mensual, FromInt(30))

(***************************************************************************)
(* Lines 317-327.  Line 323 guards the divisions of lines 324 and 325 by   *)
(* neto_mensual > 0 and line 325 divides by ahorro_neto_diario, which is   *)
(* 0.0 when neto_mensual / 30 underflows: Python then raises               *)
(* ZeroDivisionError and roi_days is never assigned (the value it has here *)
(* in that case is not used).                                              *)
(***************************************************************************)
Roi(c) ==
    c @@ [ ZeroDivisionError    |-> FGtZero(c.neto_mensual) /\ FIsZero(ahorro_neto_diario(c)),
           meses_para_recuperar |-> IF FGtZero(c.neto_mensual)
                                    THEN FDiv(c.costo_total_barras, c.neto_mensual)
                                    ELSE PosInf,
           roi_days             |-> IF FGtZero(c.neto_mensual) /\ ~FIsZero(ahorro_neto_diario(c))
                                    THEN FDiv(c.costo_total_barras, ahorro_neto_diario(c))
                                    ELSE PosInf ]

\* lines 266-330: the locals after the last assignment
Calculation(w, idle_minutes, moving_minutes) ==
    Roi(Neto(w, AhorroMensual(Ahorro(w, MermaEscalada(MermaDiaria(w, MermaTotal(w,
        Costs(w, Fuel(w, Percentages(Minutes(idle_minutes, moving_minutes)))))))))))

\* lines 311 and 333-364: the session after the computed figures c are stored
StoreResults(s, w, c) ==
    [ s EXCEPT
      !.ahorro_mensual         = c.ahorro_mensual,
      !.calculado              = TRUE,
      !.idle_minutes           = c.idle_minutes,
      !.moving_minutes         = c.moving_minutes,
      !.total_minutes          = c.total_minutes,
      !.idle_percentage        = c.idle_percentage,
      !.moving_percentage      = c.moving_percentage,
      !.combustible_ralenti    = c.combustible_ralenti,
      !.combustible_movimiento = c.combustible_movimiento,
      !.costo_ralenti          = c.costo_ralenti,
      !.costo_movimiento       = c.costo_movimiento,
      !.costo_total            = c.costo_total,
      !.merma_total            = c.merma_total,
      !.merma_diaria           = c.merma_diaria,
      !.merma_semanal          = c.merma_semanal,
      !.merma_mensual          = c.merma_mensual,
      !.merma_anual            = c.merma_anual,
      !.merma_total_unit       = c.merma_total_unit,
      !.merma_diaria_unit      = c.merma_diaria_unit,
      !.merma_semanal_unit     = c.merma_semanal_unit,
      !.merma_mensual_unit     = c.merma_mensual_unit,
      !.merma_anual_unit       = c.merma_anual_unit,
      !.ahorro_anual           = c.ahorro_anual,
      !.costo_total_barras     = c.costo_total_barras,
      !.neto_mensual           = c.neto_mensual,
      !.neto_anual             = c.neto_anual,
      !.meses_para_recuperar   = c.meses_para_recuperar,
      !.roi_days               = c.roi_days,
      !.combustible_total      = w.combustible_total,
      !.renta_mensual          = w.renta_mensual,
      !.real_idle_percentage   = FromInt(w.porcentaje_ralenti_real) ]

(***************************************************************************)
(* Lines 367-380: the real-idle figures, computed from what the session s  *)
(* holds after lines 333-364; r is the record of the locals assigned so    *)
(* far.                                                                    *)
(***************************************************************************)
\* RealIdleCost with the whole cost of idling, whatever the percentage
RealIdleCostEntero(s) ==
    [ costo_ralenti_real_unit |-> s.costo_ralenti ]

\* line 367
RealIdleCost(s) ==
    [ costo_ralenti_real_unit |-> FMul(s.costo_ralenti, FDiv(s.real_idle_percentage, FromInt(100))) ]

\* lines 368 and 375
RealIdleFleet(w, r) ==
    r @@ [ merma_total_real_unit    |-> r.costo_ralenti_real_unit,
           costo_ralenti_real_fleet |-> FMul(r.costo_ralenti_real_unit, FromInt(w.num_unidades)) ]

\* lines 369 and 376
RealIdleDaily(w, r) ==
    r @@ [ merma_diaria_real_unit |-> FDiv(r.merma_total_real_unit, FromInt(duration_days(w))),
           merma_total_real_fleet |-> r.costo_ralenti_real_fleet ]

\* lines 370-372 and 377
RealIdleUnit(w, r) ==
    r @@ [ merma_semanal_real_unit |-> FMul(r.merma_diaria_real_unit, FromInt(7)),
           merma_mensual_real_unit |-> FMul(r.merma_diaria_real_unit, FromInt(30)),
           merma_anual_real_unit   |-> FMul(r.merma_diaria_real_unit, FromInt(365)),
           merma_diaria_real_fleet |-> FDiv(r.merma_total_real_fleet, FromInt(duration_days(w))) ]

\* lines 378-380
RealIdleScaled(r) ==
    r @@ [ merma_semanal_real_fleet |-> FMul(r.merma_diaria_real_fleet, FromInt(7)),
           merma_mensual_real_fleet |-> FMul(r.merma_diaria_real_fleet, FromInt(30)),
           merma_anual_real_fleet   |-> FMul(r.merma_diaria_real_fleet, FromInt(365)) ]

\* lines 367-380: the locals after the last assignment
RealIdle(s, w) ==
    RealIdleScaled(RealIdleUnit(w, RealIdleDaily(w, RealIdleFleet(w, RealIdleCost(s)))))

\* StoreRealIdle with the annual fleet figure left as it was
StoreRealIdleSinAnual(s, r) ==
    [ s EXCEPT
      !.costo_ralenti_real_unit  = r.costo_ralenti_real_unit,
      !.merma_diaria_real_unit   = r.merma_diaria_real_unit,
      !.merma_semanal_real_unit  = r.merma_semanal_real_unit,
      !.merma_mensual_real_unit  = r.merma_mensual_real_unit,
      !.merma_anual_real_unit    = r.merma_anual_real_unit,
      !.costo_ralenti_real_fleet = r.costo_ralenti_real_fleet,
      !.merma_diaria_real_fleet  = r.merma_diaria_real_fleet,
      !.merma_semanal_real_fleet = r.merma_semanal_real_fleet,
      !.merma_mensual_real_fleet = r.merma_mensual_real_fleet ]

\* lines 383-392: the session after the real-idle figures r are stored
StoreRealIdle(s, r) ==
    [ s EXCEPT
      !.costo_ralenti_real_unit  = r.costo_ralenti_real_unit,
      !.merma_diaria_real_unit   = r.merma_diaria_real_unit,
      !.merma_semanal_real_unit  = r.merma_semanal_real_unit,
      !.merma_mensual_real_unit  = r.merma_mensual_real_unit,
      !.merma_anual_real_unit    = r.merma_anual_real_unit,
      !.costo_ralenti_real_fleet = r.costo_ralenti_real_fleet,
      !.merma_diaria_real_fleet  = r.merma_diaria_real_fleet,
      !.merma_semanal_real_fleet = r.merma_semanal_real_fleet,
      !.merma_mensual_real_fleet = r.merma_mensual_real_fleet,
      !.merma_anual_real_fleet   = r.merma_anual_real_fleet ]

\* lines 383-392 after lines 367-380
WithRealIdle(s, w) == StoreRealIdle(s, RealIdle(s, w))

(***************************************************************************)
(* Tab 5, lines 854-1016: what the page shows of the return on investment  *)
(* and the month-by-month series, read from st.session_state s and the     *)
(* widget values w.  round(x, 2) is the float nearest to the decimal with  *)
(* two places nearest to x, ties to the even one, with the sign of x.      *)
(***************************************************************************)
\* mant * 10^2 * 2^exp rounded to an integer, ties to even, for exp < 0
RoundCents(num, shift) ==
    LET q    == BShr(num, shift)
        rest == BSub(num, BShl(q, shift))
        c    == BCmp(rest, BShl(<<1>>, shift - 1))
    IN  IF c > 0 \/ (c = 0 /\ BIsOdd(q)) THEN BAdd(q, <<1>>) ELSE q

\* round(x, 2) for a finite float x
round2(x) ==
    IF x.mant = <<>> \/ x.exp >= 0 THEN x
    ELSE FDiv(FRound(x.neg, RoundCents(BMulLimb(x.mant, 100), -x.exp), 0, FALSE), FromInt(100))

\* x >= 0 for a finite float
FGeZero(x) == x.mant = <<>> \/ ~x.neg

\* lines 860-865 and 883-884: the two entries of the comparison table
RoiDisplay(s) ==
    LET meses_para_recuperar == IF FGtZero(s.neto_mensual) THEN round2(s.meses_para_recuperar) ELSE PosInf
        roi_days             == IF FGtZero(s.neto_mensual) THEN round2(s.roi_days) ELSE PosInf
    IN  [ meses |-> IF meses_para_recuperar /= PosInf
                    THEN [text |-> "meses", value |-> meses_para_recuperar]
                    ELSE [text |-> "No es recuperable", value |-> PosInf],
          dias  |-> IF roi_days /= PosInf
                    THEN [text |-> "días", value |-> roi_days]
                    ELSE [text |-> "No es recuperable", value |-> PosInf] ]

\* line 991
meses == 60

\* Fila with the cost left out of the gain
FilaSinCosto(mes, ahorro_acumulado, costo_acumulado) ==
    [ Mes       |-> mes,
      Ahorro    |-> round2(ahorro_acumulado),
      Costo     |-> round2(costo_acumulado),
      Ganancia  |-> round2(ahorro_acumulado) ]

\* lines 1006-1011: the row of month mes, from the locals of the loop body
Fila(mes, ahorro_acumulado, costo_acumulado) ==
    [ Mes       |-> mes,
      Ahorro    |-> round2(ahorro_acumulado),
      Costo     |-> round2(costo_acumulado),
      Ganancia  |-> round2(FSub(ahorro_acumulado, costo_acumulado)) ]

\* lines 1005-1011: the rows of the months mes..meses, ahorro_acumulado
\* being the savings accumulated up to and including month mes
RECURSIVE Filas(_, _, _, _, _)
Filas(mes, ahorro_acumulado, costo_inicial, costo_mensual, ahorro_mensual) ==
    IF mes > meses THEN <<>>
    ELSE <<Fila(mes, ahorro_acumulado, FAdd(costo_inicial, FMul(costo_mensual, FromInt(mes))))>>
         \o Filas(mes + 1, FAdd(ahorro_acumulado, ahorro_mensual),
                  costo_inicial, costo_mensual, ahorro_mensual)

\* lines 1000-1013: df_evolucion
data_evolucion(s, w) ==
    Filas(1, FAdd(F0, s.ahorro_mensual), s.costo_total_barras,
          FMul(s.renta_mensual, FromInt(w.num_unidades)), s.ahorro_mensual)

\* the minimum of no rows, for which pd.isna holds
NaN == None

\* line 1016: the least Mes of the rows with Ganancia >= 0, NaN if none
roi_mes(df_evolucion) ==
    LET rows == {i \in 1..Len(df_evolucion) : FGeZero(df_evolucion[i].Ganancia)}
    IN  IF rows = {} THEN NaN
        ELSE IntValue(df_evolucion[CHOOSE i \in rows : \A j \in rows : i <= j].Mes)

\* lines 192 and 258-269: the text of each st.error, without its emoji and
\* accents
Message ==
    [ date_range    |-> "La fecha de inicio no puede ser posterior a la fecha de fin.",
      idle_format   |-> "Formato incorrecto para 'Tiempo en ralenti'. Por favor, siga el formato especificado.",
      moving_format |-> "Formato incorrecto para 'Tiempo en movimiento'. Por favor, siga el formato especificado.",
      fuel          |-> "El combustible total consumido debe ser mayor que cero.",
      price         |-> "El precio por litro debe ser mayor que cero.",
      zero_time     |-> "El tiempo total no puede ser cero." ]

\* Validation with the price checked before the fuel
ValidationPriceFirst(w, idle_minutes, moving_minutes) ==
    IF idle_minutes.none THEN "idle_format"
    ELSE IF moving_minutes.none THEN "moving_format"
    ELSE IF FLeZero(w.precio_litro) THEN "price"
    ELSE IF FLeZero(w.combustible_total) THEN "fuel"
    ELSE IF idle_minutes.val + moving_minutes.val = 0 THEN "zero_time"
    ELSE "ok"

\* Validation with the check of the total time made before those of the
\* fuel and the price
ValidationZeroFirst(w, idle_minutes, moving_minutes) ==
    IF idle_minutes.none THEN "idle_format"
    ELSE IF moving_minutes.none THEN "moving_format"
    ELSE IF idle_minutes.val + moving_minutes.val = 0 THEN "zero_time"
    ELSE IF FLeZero(w.combustible_total) THEN "fuel"
    ELSE IF FLeZero(w.precio_litro) THEN "price"
    ELSE "ok"

(***************************************************************************)
(* Lines 257-269: the checks of a Calculate run, in the order of the       *)
(* if/elif chain, on the widget values w and the results of the two calls  *)
(* of parse_time_string; the name of the first one that fails, or "ok".    *)
(***************************************************************************)
Validation(w, idle_minutes, moving_minutes) ==
    IF idle_minutes.none THEN "idle_format"
    ELSE IF moving_minutes.none THEN "moving_format"
    ELSE IF FLeZero(w.combustible_total) THEN "fuel"
    ELSE IF FLeZero(w.precio_litro) THEN "price"
    ELSE IF idle_minutes.val + moving_minutes.val = 0 THEN "zero_time"
    ELSE "ok"

\* DatesValid without the check: any two dates pass
DatesUnchecked(w) == w.start_date \in Int /\ w.end_date \in Int

\* lines 191-193: the date check ends the execution with st.stop()
DatesValid(w) == ~(w.start_date > w.end_date)

\* Calculate with the real-idle figures taken from what the session held
\* before the figures of this run are stored
CalculateRealIdleFirst(s, w, idle_minutes, moving_minutes) ==
    [ raised  |-> FALSE,
      session |-> StoreResults(WithRealIdle(s, w), w,
                               Calculation(w, idle_minutes, moving_minutes)) ]

\* lines 271-392 with the figures c: whether line 325 raised
\* ZeroDivisionError, and st.session_state when the block ends: with every
\* field stored, or with that of line 311 alone if line 325 raised
Block(s, w, c) ==
    [ raised  |-> c.ZeroDivisionError,
      session |-> IF c.ZeroDivisionError
                  THEN [s EXCEPT !.ahorro_mensual = c.ahorro_mensual]
                  ELSE WithRealIdle(StoreResults(s, w, c), w) ]

\* lines 271-392: the computation block on the session s
Calculate(s, w, idle_minutes, moving_minutes) ==
    Block(s, w, Calculation(w, idle_minutes, moving_minutes))

\* the block not entered
NotCalculated(s) == [raised |-> FALSE, session |-> s]

\* lines 191-193: what an execution the date check ends has done
Stopped ==
    /\ errors' = <<"date_range">>
    /\ failed' = TRUE
    /\ computed' = FALSE
    /\ tabs' = FALSE
    /\ ss' = ss

\* line 251 when st.button returns False: nothing below it runs
NotPressed ==
    /\ errors' = <<>>
    /\ failed' = failed
    /\ computed' = FALSE
    /\ tabs' = FALSE
    /\ ss' = ss

\* Pressed with the price checked only after the figures are computed and
\* stored
PressedPriceLate(w, v, idle_minutes, moving_minutes) ==
    /\ errors' = IF v = "ok" THEN <<>> ELSE <<v>>
    /\ failed' = (failed \/ v /= "ok")
    /\ computed' = (v = "ok")
    /\ tabs' = (v \in {"ok", "zero_time"})
    /\ ss' = IF v \in {"ok", "price"}
             THEN Calculate(ss, w, idle_minutes.val, moving_minutes.val).session
             ELSE ss

\* Pressed with a failure that lasts: once an execution has reported an
\* error, a run whose checks pass stores nothing
PressedFailureLasts(w, v, idle_minutes, moving_minutes) ==
    /\ errors' = IF v = "ok" THEN <<>> ELSE <<v>>
    /\ failed' = (failed \/ v /= "ok")
    /\ computed' = (v = "ok" /\ ~failed)
    /\ tabs' = (v \in {"ok", "zero_time"})
    /\ ss' = IF v = "ok" /\ ~failed
             THEN Calculate(ss, w, idle_minutes.val, moving_minutes.val).session
             ELSE ss

\* lines 257-395 once the checks have ended as v and the computation block,
\* if they all passed, as r: what the execution has shown and stored
Finished(v, r) ==
    /\ errors' = IF r.raised THEN <<"ZeroDivisionError">>
                 ELSE IF v = "ok" THEN <<>> ELSE <<v>>
    /\ failed' = (failed \/ v /= "ok" \/ r.raised)
    /\ computed' = (v = "ok" /\ ~r.raised)
    /\ tabs' = (~r.raised /\ v \in {"ok", "zero_time"})
    /\ ss' = r.session

\* lines 257-395 when the checks end as v: the error of the check that
\* failed, the computation if none did, and the tabs, which line 395 renders
\* inside the else of line 265 and not inside the else of line 270.  An
\* exception the computation raises ends the execution where it is raised
\* and Streamlit shows it on the page.
Pressed(w, v, idle_minutes, moving_minutes) ==
    Finished(v, IF v = "ok" THEN Calculate(ss, w, idle_minutes.val, moving_minutes.val)
                ELSE NotCalculated(ss))

\* lines 254-395
Checked(w, idle_minutes, moving_minutes) ==
    Pressed(w, Validation(w, idle_minutes, moving_minutes), idle_minutes, moving_minutes)

\* one execution of the script in which st.button returns False
Rerun(w) ==
    /\ inp' = w
    /\ button' = FALSE
    /\ IF DatesValid(w) THEN NotPressed ELSE Stopped

\* one execution of the script in which st.button returns True
Execute(w) ==
    /\ inp' = w
    /\ button' = TRUE
    /\ IF DatesValid(w)
       THEN Checked(w, parse_time_string(w.idle_time), parse_time_string(w.moving_time))
       ELSE Stopped

(***************************************************************************)
(* The values the widgets take in the model.                               *)
(***************************************************************************)
Duration(d, h, m, sp) ==
    <<"(">> \o d \o <<"D", ",">> \o sp \o h \o <<"H", ",">> \o sp \o m \o <<"M", ")">>

MaxEdits == 4
MaxDate == 1

IdleTexts == { <<>>, Duration(<<"0">>, <<"0">>, <<"0">>, <<" ">>),
               Duration(<<"0">>, <<"0">>, <<"1">>, <<" ">>) }
MovingTexts == { <<>>, Duration(<<"0">>, <<"0">>, <<"0">>, <<>>),
                 Duration(<<"0">>, <<"0">>, <<"2">>, <<>>) }
FuelValues == { FromInt(1419), F0 }
PriceValues == { FromInt(25), F0 }
UnitValues == { 30, 1 }
ReductionValues == { 20, 0 }
RealIdleValues == { 100, 50 }
PieceCostValues == { F0, FromInt(1500) }
RentValues == { FromDecimal(99900, 2), F0 }

\* the values the widgets show when the page is first loaded
DefaultWidgets ==
    [ costo_por_pieza         |-> F0,
      renta_mensual           |-> FromDecimal(99900, 2),
      porcentaje_reduccion    |-> 20,
      porcentaje_ralenti_real |-> 100,
      start_date              |-> 0,
      end_date                |-> 0,
      idle_time               |-> <<>>,
      moving_time             |-> <<>>,
      combustible_total       |-> FromInt(1419),
      precio_litro            |-> FromInt(25),
      num_unidades            |-> 30 ]

NotParsed == [done |-> FALSE, result |-> None]

\* the state once the page has been loaded: the script has run once, with
\* the button not pressed
Init ==
    /\ ss = InitialSession
    /\ inp = DefaultWidgets
    /\ button = FALSE
    /\ errors = <<>>
    /\ failed = FALSE
    /\ computed = FALSE
    /\ tabs = FALSE
    /\ edits = 0
    /\ text = <<>>
    /\ parsed = NotParsed

\* the user changes one widget: the script runs with the button not pressed
Change(w) ==
    /\ edits < MaxEdits
    /\ w /= inp
    /\ edits' = edits + 1
    /\ Rerun(w)
    /\ UNCHANGED <<text, parsed>>

SetCostoPorPieza == \E v \in PieceCostValues : Change([inp EXCEPT !.costo_por_pieza = v])
SetRentaMensual == \E v \in RentValues : Change([inp EXCEPT !.renta_mensual = v])
SetPorcentajeReduccion == \E v \in ReductionValues : Change([inp EXCEPT !.porcentaje_reduccion = v])
SetPorcentajeRalentiReal == \E v \in RealIdleValues : Change([inp EXCEPT !.porcentaje_ralenti_real = v])
SetStartDate == \E v \in 0..MaxDate : Change([inp EXCEPT !.start_date = v])
SetEndDate == \E v \in 0..MaxDate : Change([inp EXCEPT !.end_date = v])
SetIdleTime == \E v \in IdleTexts : Change([inp EXCEPT !.idle_time = v])
SetMovingTime == \E v \in MovingTexts : Change([inp EXCEPT !.moving_time = v])
SetCombustibleTotal == \E v \in FuelValues : Change([inp EXCEPT !.combustible_total = v])
SetPrecioLitro == \E v \in PriceValues : Change([inp EXCEPT !.precio_litro = v])
SetNumUnidades == \E v \in UnitValues : Change([inp EXCEPT !.num_unidades = v])

\* the user presses the Calcular button: the script runs with it pressed.
\* The button is on the page only if the last execution reached line 251,
\* that is if the date check did not end it.
Calcular ==
    /\ DatesValid(inp)
    /\ Execute(inp)
    /\ UNCHANGED <<edits, text, parsed>>

Next ==
    \/ SetCostoPorPieza
    \/ SetRentaMensual
    \/ SetPorcentajeReduccion
    \/ SetPorcentajeRalentiReal
    \/ SetStartDate
    \/ SetEndDate
    \/ SetIdleTime
    \/ SetMovingTime
    \/ SetCombustibleTotal
    \/ SetPrecioLitro
    \/ SetNumUnidades
    \/ Calcular

Spec == Init /\ [][Next]_vars

(***************************************************************************)
(* The computation on its own: the user has set the widgets to one of      *)
(* CalcInputs and presses Calcular.                                        *)
(***************************************************************************)
CalcIdleTexts == { Duration(<<"0">>, <<"0">>, <<"1">>, <<" ">>),
                   Duration(<<"1">>, <<"2", "2">>, <<"8">>, <<" ">>) }
CalcMovingTexts == { Duration(<<"0">>, <<"0">>, <<"0">>, <<>>),
                     Duration(<<"0">>, <<"0">>, <<"2">>, <<>>),
                     Duration(<<"0">>, <<"0">>, <<"4">>, <<>>),
                     Duration(<<"1">>, <<"1", "5">>, <<"3", "2">>, <<" ">>) }
CalcFuelValues == { FromInt(1), FromInt(4), FromInt(1419) }
CalcPriceValues == { FromInt(3), FromInt(25) }
CalcUnitValues == { 3, 30 }
CalcEndDates == { 0, 6 }
CalcReductionValues == { 0, 20 }
CalcRealIdleValues == { 0, 100 }

CalcInputs ==
    { [ DefaultWidgets EXCEPT
        !.idle_time               = i,
        !.moving_time             = m,
        !.combustible_total       = f,
        !.precio_litro            = p,
        !.num_unidades            = n,
        !.end_date                = e,
        !.porcentaje_reduccion    = r,
        !.porcentaje_ralenti_real = q,
        !.costo_por_pieza         = FromInt(1500) ] :
      i \in CalcIdleTexts, m \in CalcMovingTexts, f \in CalcFuelValues,
      p \in CalcPriceValues, n \in CalcUnitValues, e \in CalcEndDates,
      r \in CalcReductionValues, q \in CalcRealIdleValues }

InitCalc ==
    /\ ss = InitialSession
    /\ inp \in CalcInputs
    /\ button = FALSE
    /\ errors = <<>>
    /\ failed = FALSE
    /\ computed = FALSE
    /\ tabs = FALSE
    /\ edits = 0
    /\ text = <<>>
    /\ parsed = NotParsed

NextCalc == Calcular

SpecCalc == InitCalc /\ [][NextCalc]_vars

(***************************************************************************)
(* The economic analysis on its own: the user has set the widgets to one   *)
(* of EconInputs and presses Calcular.  All the idling counts as loss and  *)
(* the vehicle idled all the time, so that the savings of a month are      *)
(* 1216.666..., 1000 or 0 for one unit.                                    *)
(***************************************************************************)
EconSavings ==
    { [combustible_total |-> FromInt(4),   end_date |-> 0,  porcentaje_reduccion |-> 40],
      [combustible_total |-> FromInt(120), end_date |-> 72, porcentaje_reduccion |-> 80],
      [combustible_total |-> FromInt(120), end_date |-> 72, porcentaje_reduccion |-> 0] }
EconUnitValues == { 1, 3 }
EconPieceCostValues == { F0, FromInt(2400), FromInt(10000) }
EconRentValues == { FromInt(200), FromInt(500), FromInt(1000), FromDecimal(121667, 2) }

EconInputs ==
    { [ DefaultWidgets EXCEPT
        !.idle_time            = Duration(<<"0">>, <<"0">>, <<"1">>, <<" ">>),
        !.moving_time          = Duration(<<"0">>, <<"0">>, <<"0">>, <<>>),
        !.combustible_total    = a.combustible_total,
        !.end_date             = a.end_date,
        !.porcentaje_reduccion = a.porcentaje_reduccion,
        !.num_unidades         = n,
        !.costo_por_pieza      = c,
        !.renta_mensual        = r ] :
      a \in EconSavings, n \in EconUnitValues, c \in EconPieceCostValues, r \in EconRentValues }

InitEcon ==
    /\ ss = InitialSession
    /\ inp \in EconInputs
    /\ button = FALSE
    /\ errors = <<>>
    /\ failed = FALSE
    /\ computed = FALSE
    /\ tabs = FALSE
    /\ edits = 0
    /\ text = <<>>
    /\ parsed = NotParsed

NextEcon == Calcular

SpecEcon == InitEcon /\ [][NextEcon]_vars

(***************************************************************************)
(* The divisions of the computation: Calculate runs from a page on which   *)
(* the user has entered the durations, the period, the fuel, the price,    *)
(* the reduction and the rent, the fuel being the default, the smallest    *)
(* positive float (the widget of line 224 accepts every number >= 0.0) or  *)
(* 0.0.  No piece cost is entered, so that no quotient of these runs       *)
(* exceeds the largest float.                                              *)
(***************************************************************************)
DivIdleTexts == { Duration(<<"0">>, <<"0">>, <<"1">>, <<" ">>),
                  Duration(<<"0">>, <<"0">>, <<"0">>, <<" ">>) }
DivMovingTexts == { Duration(<<"0">>, <<"0">>, <<"0">>, <<>>),
                    Duration(<<"0">>, <<"0">>, <<"2">>, <<>>) }
DivEndDates == { 0, 1 }
DivFuelValues == { FromInt(1419), MinFloat, F0 }
DivPriceValues == { FromInt(25), FromInt(1) }
DivReductionValues == { 40, 0 }
DivRentValues == { F0, FromDecimal(99900, 2) }

DivInputs ==
    { [ DefaultWidgets EXCEPT
        !.idle_time            = i,
        !.moving_time          = m,
        !.end_date             = e,
        !.combustible_total    = f,
        !.precio_litro         = p,
        !.porcentaje_reduccion = r,
        !.renta_mensual        = a,
        !.num_unidades         = 1 ] :
      i \in DivIdleTexts, m \in DivMovingTexts, e \in DivEndDates, f \in DivFuelValues,
      p \in DivPriceValues, r \in DivReductionValues, a \in DivRentValues }

InitDiv ==
    /\ ss = InitialSession
    /\ inp \in DivInputs
    /\ button = FALSE
    /\ errors = <<>>
    /\ failed = FALSE
    /\ computed = FALSE
    /\ tabs = FALSE
    /\ edits = 0
    /\ text = <<>>
    /\ parsed = NotParsed

NextDiv == Calcular

SpecDiv == InitDiv /\ [][NextDiv]_vars

(***************************************************************************)
(* parse_time_string on its own: the user types into a text area, starting *)
(* from one of SeedTexts, one character inserted or deleted at a time, and *)
(* line 254 calls parse_time_string on the text.                           *)
(***************************************************************************)
MaxTextEdits == 1

SeedTexts == { Duration(<<"1">>, <<"2", "2">>, <<"8">>, <<" ">>),
               Duration(<<"0">>, <<"3", "0">>, <<"7", "5">>, <<>>),
               Duration(<<"1">>, <<"2">>, <<"3">>, <<>>)
                   \o Duration(<<"0">>, <<"0">>, <<"9">>, <<>>),
               <<"(", "1", "2", "D", ",", "0", "H", ",", "5", "M">> }

Alphabet == { "(", ")", "D", ",", " ", "7" }

InitParse ==
    /\ ss = InitialSession
    /\ inp = DefaultWidgets
    /\ button = FALSE
    /\ errors = <<>>
    /\ failed = FALSE
    /\ computed = FALSE
    /\ tabs = FALSE
    /\ edits = 0
    /\ text \in SeedTexts
    /\ parsed = NotParsed

InsertChar ==
    /\ edits < MaxTextEdits
    /\ \E i \in 0..Len(text), c \in Alphabet :
           text' = SubSeq(text, 1, i) \o <<c>> \o SubSeq(text, i + 1, Len(text))
    /\ edits' = edits + 1
    /\ parsed' = NotParsed
    /\ UNCHANGED <<ss, inp, button, errors, failed, computed, tabs>>

DeleteChar ==
    /\ edits < MaxTextEdits
    /\ \E i \in 1..Len(text) :
           text' = SubSeq(text, 1, i - 1) \o SubSeq(text, i + 1, Len(text))
    /\ edits' = edits + 1
    /\ parsed' = NotParsed
    /\ UNCHANGED <<ss, inp, button, errors, failed, computed, tabs>>

\* line 254: the call
Parse ==
    /\ ~parsed.done
    /\ parsed' = [done |-> TRUE, result |-> parse_time_string(text)]
    /\ UNCHANGED <<ss, inp, button, errors, failed, computed, tabs, edits, text>>

NextParse == InsertChar \/ DeleteChar \/ Parse

SpecParse == InitParse /\ [][NextParse]_vars

(***************************************************************************)
(* Properties.                                                             *)
(***************************************************************************)
\* the last execution was a Calculate run, with both durations parsed
IdleParsed == parse_time_string(inp.idle_time)
MovingParsed == parse_time_string(inp.moving_time)
CalculateRun == button /\ DatesValid(inp)
BothParsed == ~IdleParsed.none /\ ~MovingParsed.none
ZeroTotal == BothParsed /\ IdleParsed.val + MovingParsed.val = 0

\* C1: a Calculate run that ends in a validation error computes no figure
\* and leaves every field of st.session_state as it was before the run.
NoPartialResults ==
    [][ (button' /\ errors' /= <<>>) => (~computed' /\ ss' = ss) ]_vars

\* a failing run after a successful one: the stored figures are still there
FailedRunKeepsResult ==
    /\ button
    /\ errors = <<"fuel">>
    /\ ~computed
    /\ ss.calculado
    /\ ss.combustible_total = FromInt(1419)

\* C2 as stated: whenever both durations parse and sum to zero minutes the
\* run reports the zero-time error, whatever the fuel and the price are.
ZeroTimeAlwaysReported ==
    (CalculateRun /\ ZeroTotal) => errors = <<"zero_time">>

\* C2 as amended: whenever both durations parse and sum to zero minutes the
\* run is rejected without computing: with the fuel error if fuel <= 0,
\* else with the price error if price <= 0, else with the zero-time error.
ZeroTimeRejected ==
    (CalculateRun /\ ZeroTotal) =>
        /\ ~computed
        /\ errors = IF FLeZero(inp.combustible_total) THEN <<"fuel">>
                    ELSE IF FLeZero(inp.precio_litro) THEN <<"price">>
                    ELSE <<"zero_time">>

ZeroTimeReported ==
    /\ CalculateRun
    /\ ZeroTotal
    /\ FGtZero(inp.combustible_total)
    /\ FGtZero(inp.precio_litro)
    /\ errors = <<"zero_time">>

(***************************************************************************)
(* What it is for the pattern to match a string, stated on positions: the  *)
(* match that starts at i has its digits of the days end at d, its hours   *)
(* at h1..h2 and its minutes at m1..m2.                                    *)
(***************************************************************************)
AllDigits(s, a, b) == a <= b /\ \A k \in a..b : IsDigit(s[k])
AllSpaces(s, a, b) == \A k \in a..b : IsSpace(s[k])
Follow(s, k, c1, c2) == k + 2 <= Len(s) /\ s[k + 1] = c1 /\ s[k + 2] = c2

RECURSIVE Decimal(_, _, _)
Decimal(s, a, b) ==
    IF a > b THEN 0 ELSE DigitValue(s[a]) * 10^(b - a) + Decimal(s, a + 1, b)

\* days*1440 + hours*60 + minutes of every match that starts at i
MinutesAt(s, i) ==
    IF s[i] /= "(" THEN {}
    ELSE UNION { UNION { UNION { UNION {
             { Decimal(s, i + 1, d) * 1440 + Decimal(s, h1, h2) * 60 + Decimal(s, m1, m2) :
               m2 \in {x \in m1..Len(s) : AllDigits(s, m1, x) /\ Follow(s, x, "M", ")")} } :
             m1 \in {x \in (h2 + 3)..Len(s) : AllSpaces(s, h2 + 3, x - 1)} } :
             h2 \in {x \in h1..Len(s) : AllDigits(s, h1, x) /\ Follow(s, x, "H", ",")} } :
             h1 \in {x \in (d + 3)..Len(s) : AllSpaces(s, d + 3, x - 1)} } :
             d  \in {x \in (i + 1)..Len(s) : AllDigits(s, i + 1, x) /\ Follow(s, x, "D", ",")} }

MatchStarts(s) == {i \in 1..Len(s) : MinutesAt(s, i) /= {}}

Least(S) == CHOOSE x \in S : \A y \in S : x <= y

\* C3: parse_time_string returns days*1440 + hours*60 + minutes of the
\* first match in the string, with no bound on any component, and the
\* failure value None for a string with no match.
ParseContract ==
    parsed.done =>
        IF MatchStarts(text) = {} THEN parsed.result = None
        ELSE /\ ~parsed.result.none
             /\ MinutesAt(text, Least(MatchStarts(text))) = {parsed.result.val}

\* thirty hours and seventy-five minutes are taken as given
LongHoursParsed ==
    /\ parsed.done
    /\ text = Duration(<<"0">>, <<"3", "0">>, <<"7", "5">>, <<>>)
    /\ parsed.result = IntValue(30 * 60 + 75)

ZeroTextParsed == parse_time_string(Duration(<<"0">>, <<"0">>, <<"0">>, <<" ">>))

\* one of the two texts holds no duration of the form (XD, YH, ZM)
NoDuration == MatchStarts(inp.idle_time) = {} \/ MatchStarts(inp.moving_time) = {}

\* C4 as stated: None is not the result 0 of "(0D, 0H, 0M)"; a run with a
\* duration that does not parse reports a format error and computes
\* nothing; a run whose durations both parse to 0 reports the zero-time
\* error.
ParseFailureOrZeroTime ==
    /\ ZeroTextParsed = IntValue(0)
    /\ None /= ZeroTextParsed
    /\ (CalculateRun /\ NoDuration) =>
           (~computed /\ errors \in {<<"idle_format">>, <<"moving_format">>})
    /\ (CalculateRun /\ BothParsed /\ IdleParsed.val = 0 /\ MovingParsed.val = 0) =>
           errors = <<"zero_time">>

\* C4 as amended: the same, except that a run whose durations both parse to
\* 0 reports the zero-time error when the fuel and the price are positive,
\* and the fuel or price error otherwise: never a format error, and it
\* computes nothing.
ParseFailureIsNotZero ==
    /\ ZeroTextParsed = IntValue(0)
    /\ None /= ZeroTextParsed
    /\ (CalculateRun /\ NoDuration) =>
           (~computed /\ errors \in {<<"idle_format">>, <<"moving_format">>})
    /\ (CalculateRun /\ BothParsed /\ IdleParsed.val = 0 /\ MovingParsed.val = 0) =>
           /\ ~computed
           /\ errors \in {<<"zero_time">>, <<"fuel">>, <<"price">>}
           /\ (FGtZero(inp.combustible_total) /\ FGtZero(inp.precio_litro)) =>
                  errors = <<"zero_time">>

\* an empty idle text with a moving text of zero minutes: a format error
EmptyTextRejected ==
    /\ CalculateRun
    /\ inp.idle_time = <<>>
    /\ MatchStarts(inp.moving_time) /= {}
    /\ MovingParsed.val = 0
    /\ errors = <<"idle_format">>
    /\ ~computed

(***************************************************************************)
(* Figures are compared as Python compares floats.  Near(a, b) is equality *)
(* up to a relative error of 2^-50, a few roundings.                       *)
(***************************************************************************)
FAbs(x) == [x EXCEPT !.neg = FALSE]
FLe(x, y) == FCmp(x, y) <= 0
Tolerance == [inf |-> FALSE, neg |-> FALSE, mant |-> <<1>>, exp |-> -50]
Near(a, b) == FLe(FAbs(FSub(a, b)), FMul(Tolerance, FAbs(b)))
Hundred == FromInt(100)
Units == FromInt(inp.num_unidades)
Days == FromInt(duration_days(inp))

\* C5: after a computation idle_percentage = idle_minutes / total_minutes
\* * 100 and idle_percentage + moving_percentage = 100 exactly.
PercentagesSumTo100 ==
    computed =>
        /\ ss.idle_percentage = FMul(IntTrueDiv(ss.idle_minutes, ss.total_minutes), Hundred)
        /\ FAdd(ss.idle_percentage, ss.moving_percentage) = Hundred

\* C6: after a computation combustible_ralenti = idle_percentage / 100 *
\* combustible_total and combustible_ralenti + combustible_movimiento =
\* combustible_total exactly.
FuelConserved ==
    computed =>
        /\ ss.combustible_ralenti =
               FMul(FDiv(ss.idle_percentage, Hundred), inp.combustible_total)
        /\ FAdd(ss.combustible_ralenti, ss.combustible_movimiento) = inp.combustible_total

CostProducts ==
    /\ ss.costo_ralenti = FMul(ss.combustible_ralenti, inp.precio_litro)
    /\ ss.costo_movimiento = FMul(ss.combustible_movimiento, inp.precio_litro)
    /\ ss.costo_total = FMul(inp.combustible_total, inp.precio_litro)

\* C7 as stated: after a computation each cost is its fuel times the price,
\* so that costo_ralenti + costo_movimiento = costo_total.
CostsAddUp ==
    computed =>
        /\ CostProducts
        /\ FAdd(ss.costo_ralenti, ss.costo_movimiento) = ss.costo_total

\* C7 as amended: after a computation each cost is its fuel times the
\* price, and costo_ralenti + costo_movimiento is costo_total up to a
\* relative rounding error of 2^-50, not exactly.
CostsAddUpNearly ==
    computed =>
        /\ CostProducts
        /\ Near(FAdd(ss.costo_ralenti, ss.costo_movimiento), ss.costo_total)

\* percentages and fuel add up exactly and the costs still do not
CostsOffByRounding ==
    /\ computed
    /\ FAdd(ss.idle_percentage, ss.moving_percentage) = Hundred
    /\ FAdd(ss.combustible_ralenti, ss.combustible_movimiento) = inp.combustible_total
    /\ FAdd(ss.costo_ralenti, ss.costo_movimiento) /= ss.costo_total

\* C8: in every computed result, for the fleet and for one unit, the weekly
\* loss is the daily loss * 7, the monthly * 30 and the annual * 365,
\* whatever the number of days of the period.
LossScaling ==
    computed =>
        /\ ss.merma_semanal = FMul(ss.merma_diaria, FromInt(7))
        /\ ss.merma_mensual = FMul(ss.merma_diaria, FromInt(30))
        /\ ss.merma_anual = FMul(ss.merma_diaria, FromInt(365))
        /\ ss.merma_semanal_unit = FMul(ss.merma_diaria_unit, FromInt(7))
        /\ ss.merma_mensual_unit = FMul(ss.merma_diaria_unit, FromInt(30))
        /\ ss.merma_anual_unit = FMul(ss.merma_diaria_unit, FromInt(365))

\* a period of seven days, scaled by 7, 30 and 365 all the same
SevenDayPeriodScaled ==
    /\ computed
    /\ duration_days(inp) = 7
    /\ FGtZero(ss.merma_diaria_unit)
    /\ ss.merma_anual_unit = FMul(ss.merma_diaria_unit, FromInt(365))

LossFormulas ==
    /\ ss.merma_diaria = FDiv(FMul(ss.costo_ralenti, Units), Days)
    /\ ss.merma_diaria_unit = FDiv(ss.costo_ralenti, Days)
    /\ ss.merma_total = FMul(ss.merma_total_unit, Units)

\* the scenario: one day, idle cost 100, 30 units
LossScenario ==
    (duration_days(inp) = 1 /\ ss.costo_ralenti = Hundred /\ inp.num_unidades = 30) =>
        /\ ss.merma_total = FromInt(3000)
        /\ ss.merma_diaria = FromInt(3000)
        /\ ss.merma_semanal = FromInt(21000)
        /\ ss.merma_mensual = FromInt(90000)
        /\ ss.merma_anual = FromInt(1095000)

\* C9 as stated: the fleet daily loss is costo_ralenti * num_unidades /
\* duration_days and the unit daily loss costo_ralenti / duration_days, so
\* at the total, daily, weekly, monthly and annual horizon the fleet loss
\* is the unit loss times num_unidades; and the scenario.
FleetIsUnitTimesUnits ==
    computed =>
        /\ LossFormulas
        /\ ss.merma_diaria = FMul(ss.merma_diaria_unit, Units)
        /\ ss.merma_semanal = FMul(ss.merma_semanal_unit, Units)
        /\ ss.merma_mensual = FMul(ss.merma_mensual_unit, Units)
        /\ ss.merma_anual = FMul(ss.merma_anual_unit, Units)
        /\ LossScenario

\* C9 as amended: the same two formulas and the scenario; the fleet loss is
\* the unit loss times num_unidades exactly at the total horizon, and up to
\* a relative rounding error of 2^-50 at the daily, weekly, monthly and
\* annual horizons.
FleetIsNearlyUnitTimesUnits ==
    computed =>
        /\ LossFormulas
        /\ Near(FMul(ss.merma_diaria_unit, Units), ss.merma_diaria)
        /\ Near(FMul(ss.merma_semanal_unit, Units), ss.merma_semanal)
        /\ Near(FMul(ss.merma_mensual_unit, Units), ss.merma_mensual)
        /\ Near(FMul(ss.merma_anual_unit, Units), ss.merma_anual)
        /\ LossScenario

ScenarioComputed ==
    /\ computed
    /\ duration_days(inp) = 1
    /\ ss.costo_ralenti = Hundred
    /\ inp.num_unidades = 30
    /\ ss.merma_anual = FromInt(1095000)

\* C10: ahorro_anual = merma_anual * (porcentaje_reduccion / 100) *
\* (porcentaje_ralenti_real / 100) and ahorro_mensual = ahorro_anual / 12;
\* 0 <= ahorro_anual <= merma_anual, and ahorro_anual = 0 when either
\* percentage is 0.
SavingsFormula ==
    computed =>
        /\ ss.ahorro_anual =
               FMul(FMul(ss.merma_anual, IntTrueDiv(inp.porcentaje_reduccion, 100)),
                    IntTrueDiv(inp.porcentaje_ralenti_real, 100))
        /\ ss.ahorro_mensual = FDiv(ss.ahorro_anual, FromInt(12))
        /\ FLe(F0, ss.ahorro_anual)
        /\ FLe(ss.ahorro_anual, ss.merma_anual)
        /\ (inp.porcentaje_reduccion = 0 \/ inp.porcentaje_ralenti_real = 0) =>
               FIsZero(ss.ahorro_anual)

\* a loss to save on, a reduction of 20 %, and none of the idling counted
NoRealIdleNoSavings ==
    /\ computed
    /\ FGtZero(ss.merma_anual)
    /\ inp.porcentaje_reduccion = 20
    /\ inp.porcentaje_ralenti_real = 0
    /\ FIsZero(ss.ahorro_anual)

(***************************************************************************)
(* The run that would have been made with another reduction percentage.    *)
(***************************************************************************)
OtherReductions == { 1, 33, 100 }

AhorroAnualWith(r) ==
    Calculation([inp EXCEPT !.porcentaje_reduccion = r], IdleParsed.val, MovingParsed.val).ahorro_anual

\* C11: of two successful computations whose inputs differ only in
\* porcentaje_reduccion, the one with the larger percentage has an
\* ahorro_anual greater than or equal to the other's.
SavingsMonotone ==
    computed =>
        \A r \in OtherReductions :
            IF r >= inp.porcentaje_reduccion
            THEN FLe(ss.ahorro_anual, AhorroAnualWith(r))
            ELSE FLe(AhorroAnualWith(r), ss.ahorro_anual)

\* a reduction of 20 % saves less than one of 33 % and more than one of 1 %
MoreReductionMoreSavings ==
    /\ computed
    /\ inp.porcentaje_reduccion = 20
    /\ FCmp(ss.ahorro_anual, AhorroAnualWith(33)) < 0
    /\ FCmp(AhorroAnualWith(1), ss.ahorro_anual) < 0

(***************************************************************************)
(* The inputs pass every check of lines 257-269, stated on the inputs.     *)
(***************************************************************************)
InputsValid ==
    /\ MatchStarts(inp.idle_time) /= {}
    /\ MatchStarts(inp.moving_time) /= {}
    /\ FGtZero(inp.combustible_total)
    /\ FGtZero(inp.precio_litro)
    /\ IdleParsed.val + MovingParsed.val > 0

RentaTotal == FMul(inp.renta_mensual, Units)
NetoMensual == FSub(ss.ahorro_mensual, RentaTotal)
NoEsRecuperable == [text |-> "No es recuperable", value |-> PosInf]

\* C12: if the monthly net benefit is <= 0, meses_para_recuperar and
\* roi_days are both float('inf'), and this is no error: the run succeeds,
\* stores its result and the page shows "No es recuperable" for both.
NotRecoverableIsAResult ==
    (CalculateRun /\ InputsValid /\ FLeZero(NetoMensual)) =>
        /\ computed
        /\ errors = <<>>
        /\ tabs
        /\ ss.calculado
        /\ ss.neto_mensual = NetoMensual
        /\ ss.meses_para_recuperar = PosInf
        /\ ss.roi_days = PosInf
        /\ RoiDisplay(ss).meses = NoEsRecuperable
        /\ RoiDisplay(ss).dias = NoEsRecuperable

\* savings of 1216.666... a month against a rent of 1216.67
SavingsBelowRent ==
    /\ computed
    /\ FGtZero(ss.ahorro_mensual)
    /\ ss.neto_mensual.neg
    /\ ss.meses_para_recuperar = PosInf
    /\ RoiDisplay(ss).dias = NoEsRecuperable

Thirty == FromInt(30)

PaybackFormulas ==
    /\ ss.costo_total_barras = FMul(inp.costo_por_pieza, Units)
    /\ ss.meses_para_recuperar = FDiv(ss.costo_total_barras, ss.neto_mensual)
    /\ ss.roi_days = FDiv(ss.costo_total_barras, FDiv(ss.neto_mensual, Thirty))
    /\ ~ss.meses_para_recuperar.inf
    /\ ~ss.roi_days.inf
    /\ FIsZero(ss.costo_total_barras) =>
           (FIsZero(ss.meses_para_recuperar) /\ FIsZero(ss.roi_days))

Twelve == FromInt(12)
RentaAnual == FMul(FMul(inp.renta_mensual, Twelve), Units)

NetFormulas ==
    /\ ss.neto_mensual = FSub(ss.ahorro_mensual, FMul(inp.renta_mensual, Units))
    /\ ss.neto_anual = FSub(ss.ahorro_anual, RentaAnual)

\* C14 as stated: neto_mensual = ahorro_mensual - renta_mensual *
\* num_unidades and neto_anual = ahorro_anual - renta_mensual * 12 *
\* num_unidades, so that neto_anual = 12 * neto_mensual.
AnnualNetIsTwelveMonthly ==
    computed =>
        /\ NetFormulas
        /\ ss.neto_anual = FMul(Twelve, ss.neto_mensual)

\* C14 as amended: the same two formulas; neto_anual differs from 12 *
\* neto_mensual by no more than 2^-50 times the sum of the annual savings
\* and the annual rent.
AnnualNetNearlyTwelveMonthly ==
    computed =>
        /\ NetFormulas
        /\ FLe(FAbs(FSub(ss.neto_anual, FMul(Twelve, ss.neto_mensual))),
               FMul(Tolerance, FAdd(ss.ahorro_anual, RentaAnual)))

\* a rent of 1216.67 and a net benefit that is not twelve times the monthly
\* one
NetOffByRounding ==
    /\ computed
    /\ inp.renta_mensual = FromDecimal(121667, 2)
    /\ FGtZero(ss.ahorro_mensual)
    /\ ss.neto_anual /= FMul(Twelve, ss.neto_mensual)

RealShare == IntTrueDiv(inp.porcentaje_ralenti_real, 100)

RealIdleFormulas ==
    /\ ss.costo_ralenti_real_unit = FMul(ss.costo_ralenti, RealShare)
    /\ ss.merma_diaria_real_unit = FDiv(ss.costo_ralenti_real_unit, Days)
    /\ ss.merma_semanal_real_unit = FMul(ss.merma_diaria_real_unit, FromInt(7))
    /\ ss.merma_mensual_real_unit = FMul(ss.merma_diaria_real_unit, Thirty)
    /\ ss.merma_anual_real_unit = FMul(ss.merma_diaria_real_unit, FromInt(365))
    /\ ss.merma_diaria_real_fleet = FDiv(ss.costo_ralenti_real_fleet, Days)
    /\ ss.merma_semanal_real_fleet = FMul(ss.merma_diaria_real_fleet, FromInt(7))
    /\ ss.merma_mensual_real_fleet = FMul(ss.merma_diaria_real_fleet, Thirty)
    /\ ss.merma_anual_real_fleet = FMul(ss.merma_diaria_real_fleet, FromInt(365))
    /\ ss.costo_ralenti_real_fleet = FMul(ss.costo_ralenti_real_unit, Units)

RealIdleIsLossAt100 ==
    inp.porcentaje_ralenti_real = 100 =>
        /\ ss.costo_ralenti_real_unit = ss.merma_total_unit
        /\ ss.merma_diaria_real_unit = ss.merma_diaria_unit
        /\ ss.merma_semanal_real_unit = ss.merma_semanal_unit
        /\ ss.merma_mensual_real_unit = ss.merma_mensual_unit
        /\ ss.merma_anual_real_unit = ss.merma_anual_unit
        /\ ss.costo_ralenti_real_fleet = ss.merma_total
        /\ ss.merma_diaria_real_fleet = ss.merma_diaria
        /\ ss.merma_semanal_real_fleet = ss.merma_semanal
        /\ ss.merma_mensual_real_fleet = ss.merma_mensual
        /\ ss.merma_anual_real_fleet = ss.merma_anual

\* C15 as stated: the real-idle cost of one unit is this run's costo_ralenti
\* * porcentaje_ralenti_real / 100; daily = cost / duration_days, weekly =
\* daily * 7, monthly = daily * 30, annual = daily * 365, for one unit and
\* for the fleet; fleet = unit * num_unidades at every horizon; with 100 %
\* the figures are the unadjusted losses.
RealIdleFleetIsUnitTimesUnits ==
    computed =>
        /\ RealIdleFormulas
        /\ ss.merma_diaria_real_fleet = FMul(ss.merma_diaria_real_unit, Units)
        /\ ss.merma_semanal_real_fleet = FMul(ss.merma_semanal_real_unit, Units)
        /\ ss.merma_mensual_real_fleet = FMul(ss.merma_mensual_real_unit, Units)
        /\ ss.merma_anual_real_fleet = FMul(ss.merma_anual_real_unit, Units)
        /\ RealIdleIsLossAt100

\* C15 as amended: the same, except that fleet = unit * num_unidades holds
\* exactly for the cost of the period, and up to a relative rounding error
\* of 2^-50 at the daily, weekly, monthly and annual horizons.
RealIdleFleetNearlyUnitTimesUnits ==
    computed =>
        /\ RealIdleFormulas
        /\ Near(FMul(ss.merma_diaria_real_unit, Units), ss.merma_diaria_real_fleet)
        /\ Near(FMul(ss.merma_semanal_real_unit, Units), ss.merma_semanal_real_fleet)
        /\ Near(FMul(ss.merma_mensual_real_unit, Units), ss.merma_mensual_real_fleet)
        /\ Near(FMul(ss.merma_anual_real_unit, Units), ss.merma_anual_real_fleet)
        /\ RealIdleIsLossAt100

\* all the idling counted, over seven days: the figures of the loss
RealIdleAtFullShare ==
    /\ computed
    /\ inp.porcentaje_ralenti_real = 100
    /\ duration_days(inp) = 7
    /\ FGtZero(ss.merma_anual_real_fleet)
    /\ ss.merma_anual_real_fleet = ss.merma_anual

(***************************************************************************)
(* The series of tab 5 and the figures it is made from: the savings of a   *)
(* month, the cost of the bars and the rent of a month for the fleet, as   *)
(* lines 1001-1003 read them.  Acumulados is the sequence of the figures   *)
(* of months mes..meses before any rounding.                               *)
(***************************************************************************)
MonthlySavings == ss.ahorro_mensual
InitialCost == ss.costo_total_barras
MonthlyCost == FMul(ss.renta_mensual, Units)

CostAt(m) == FAdd(InitialCost, FMul(MonthlyCost, FromInt(m)))

RECURSIVE Acumulados(_, _)
Acumulados(mes, ahorro) ==
    IF mes > meses THEN <<>>
    ELSE <<[Ahorro |-> ahorro, Ganancia |-> FSub(ahorro, CostAt(mes))]>>
         \o Acumulados(mes + 1, FAdd(ahorro, MonthlySavings))

Months == 1..meses

\* the relative error 60 additions can accumulate stays below 2^-46
SumTolerance == [inf |-> FALSE, neg |-> FALSE, mant |-> <<1>>, exp |-> -46]

SeriesExact(df) ==
    /\ Len(df) = 60
    /\ \A m \in Months :
           /\ df[m].Mes = m
           /\ df[m].Ahorro = FMul(FromInt(m), MonthlySavings)
           /\ df[m].Costo = CostAt(m)
           /\ df[m].Ganancia = FSub(df[m].Ahorro, df[m].Costo)

SeriesRounded(df, raw) ==
    /\ Len(df) = 60
    /\ \A m \in Months :
           /\ df[m].Mes = m
           /\ df[m].Ahorro = round2(raw[m].Ahorro)
           /\ df[m].Costo = round2(CostAt(m))
           /\ df[m].Ganancia = round2(raw[m].Ganancia)
           /\ FLe(FAbs(FSub(raw[m].Ahorro, FMul(FromInt(m), MonthlySavings))),
                  FMul(SumTolerance, FMul(FromInt(m), MonthlySavings)))

SeriesOfThirds(df) ==
    /\ df[1].Ahorro = FromDecimal(121667, 2)
    /\ df[1].Ahorro /= MonthlySavings
    /\ df[6].Ahorro = FromInt(7300)
    /\ df[60].Mes = 60

FirstMonth(S) == IF S = {} THEN NaN ELSE IntValue(Least(S))

BreakEvenScenario(df) ==
    (MonthlySavings = FromInt(1000) /\ MonthlyCost = FromInt(200) /\ InitialCost = FromInt(2400)) =>
        /\ df[1].Ganancia = FromInt(-1600)
        /\ df[2].Ganancia = FromInt(-800)
        /\ df[3].Ganancia = F0
        /\ roi_mes(df) = IntValue(3)

BreakEven(df, raw) ==
    /\ roi_mes(df) = FirstMonth({m \in Months : FGeZero(raw[m].Ganancia)})
    /\ BreakEvenScenario(df)

\* C17: roi_mes is the least month of 1..60 whose cumulative net gain is
\* >= 0 and is absent (NaN) when there is none; with monthly savings 1000,
\* monthly cost 200 and initial cost 2400 the gains are -1600, -800, 0 and
\* roi_mes = 3.
BreakEvenIsFirstNonNegative ==
    tabs => BreakEven(data_evolucion(ss, inp), Acumulados(1, FAdd(F0, MonthlySavings)))

Decreasing(df, raw) ==
    /\ \A m \in 1..(meses - 1) : FCmp(raw[m + 1].Ganancia, raw[m].Ganancia) < 0
    /\ roi_mes(df) = NaN
    /\ (FIsZero(MonthlySavings) /\ MonthlyCost = FromInt(500) /\ InitialCost = FromInt(10000)) =>
           df[60].Ganancia = FromInt(-40000)

\* C18: whenever the monthly savings are below the monthly cost and the
\* initial cost is >= 0, the cumulative net gain decreases strictly from
\* each month to the next over the 60 months and roi_mes is absent.
LosingNeverBreaksEven ==
    (tabs /\ FCmp(MonthlySavings, MonthlyCost) < 0 /\ FGeZero(InitialCost)) =>
        Decreasing(data_evolucion(ss, inp), Acumulados(1, FAdd(F0, MonthlySavings)))

\* C19: the figures a successful run stores are those the same inputs give
\* in a new session, whatever st.session_state held before the run; the
\* series of tab 5 is read from these figures and the widgets alone.
RunsAreIndependent ==
    [][ computed' =>
            ss' = Calculate(InitialSession, inp',
                            parse_time_string(inp'.idle_time).val,
                            parse_time_string(inp'.moving_time).val).session ]_vars

\* a run at half the real idling, made on top of what was stored before
HalfRealIdleRun ==
    /\ computed
    /\ edits = MaxEdits
    /\ inp.porcentaje_ralenti_real = 50
    /\ ss.costo_ralenti_real_unit = FMul(ss.costo_ralenti, FDiv(FromInt(50), Hundred))
    /\ FGtZero(ss.costo_ralenti_real_unit)

(***************************************************************************)
(* A session in which every field holds a value no run can store.          *)
(***************************************************************************)
Stale(f) ==
    IF f = "calculado" THEN FALSE
    ELSE IF f \in {"idle_minutes", "moving_minutes", "total_minutes"} THEN -1
    ELSE FNeg(PosInf)

StaleSession == [f \in DOMAIN InitialSession |-> Stale(f)]

Replaced(r) == \A f \in DOMAIN InitialSession : r[f] /= Stale(f)

\* C20: a successful run writes every field of the record: what it stores
\* is what it would store over a session of stale values, and none of the
\* fields is left with the value it had.
WholesaleReplace ==
    computed =>
        /\ DOMAIN ss = DOMAIN InitialSession
        /\ ss = Calculate(StaleSession, inp, IdleParsed.val, MovingParsed.val).session
        /\ Replaced(ss)
        /\ Replaced(Calculate(StaleSession, inp, IdleParsed.val, MovingParsed.val).session)

\* a rent of 0 stored over the 999.00 of initialisation
RentReplaced ==
    /\ computed
    /\ InitialSession.renta_mensual = FromDecimal(99900, 2)
    /\ inp.renta_mensual = F0
    /\ ss.renta_mensual = F0
    /\ ss.calculado

(***************************************************************************)
(* The date range.                                                         *)
(***************************************************************************)
PeriodDays == (inp.end_date - inp.start_date) + 1

\* C21: an execution with the start date after the end date reports the
\* date-range error and nothing else, computes nothing and leaves the stored
\* result as it was; every computation is made with end - start + 1 days,
\* which is at least 1, as the daily loss (the only figure the days enter
\* directly) shows.
DateRangeEnforced ==
    [][ /\ (inp'.start_date > inp'.end_date) =>
               (errors' = <<"date_range">> /\ ~computed' /\ ~tabs' /\ ss' = ss)
        /\ computed' =>
               /\ PeriodDays' >= 1
               /\ ss'.merma_diaria = FDiv(ss'.merma_total, FromInt(PeriodDays')) ]_vars

\* C21 witness: a start date after the end date is rejected while the
\* session holds the result of an earlier run
DateRangeRejected ==
    /\ inp.start_date > inp.end_date
    /\ errors = <<"date_range">>
    /\ ss.calculado
    /\ ~computed

(***************************************************************************)
(* Runs after failures.                                                    *)
(***************************************************************************)
\* the inputs w pass every check of a Calculate run
ValidInputs(w) ==
    /\ ~(w.start_date > w.end_date)
    /\ MatchStarts(w.idle_time) /= {}
    /\ MatchStarts(w.moving_time) /= {}
    /\ FGtZero(w.combustible_total)
    /\ FGtZero(w.precio_litro)
    /\ parse_time_string(w.idle_time).val + parse_time_string(w.moving_time).val > 0

\* the session a Calculate run stores for the inputs w when it is the first
\* execution after the page is loaded
FirstRunResult(w) ==
    Calculate(InitialSession, w, parse_time_string(w.idle_time).val,
              parse_time_string(w.moving_time).val).session

TabsOnlyAfterValidation ==
    tabs => (button /\ computed /\ errors = <<>>)

(***************************************************************************)
(* The errors of a Calculate run.                                          *)
(***************************************************************************)
\* the checks of a Calculate run that fail for the inputs, in the order of
\* the claim
FailingChecks ==
    (IF MatchStarts(inp.idle_time) = {} THEN <<"idle_format">> ELSE <<>>)
    \o (IF MatchStarts(inp.moving_time) = {} THEN <<"moving_format">> ELSE <<>>)
    \o (IF FLeZero(inp.combustible_total) THEN <<"fuel">> ELSE <<>>)
    \o (IF FLeZero(inp.precio_litro) THEN <<"price">> ELSE <<>>)
    \o (IF /\ MatchStarts(inp.idle_time) /= {}
           /\ MatchStarts(inp.moving_time) /= {}
           /\ IdleParsed.val + MovingParsed.val = 0
        THEN <<"zero_time">> ELSE <<>>)

\* C24: a Calculate run reports no error if no check fails and otherwise
\* exactly one, that of the first check that fails in the order idle format,
\* moving format, fuel, price, zero total time; and the messages of the
\* errors differ from one another.
OneErrorInOrder ==
    /\ CalculateRun =>
           errors = IF FailingChecks = <<>> THEN <<>> ELSE <<Head(FailingChecks)>>
    /\ \A e \in 1..Len(errors) : errors[e] \in DOMAIN Message
    /\ \A a, b \in DOMAIN Message : a /= b => Message[a] /= Message[b]

\* C24 witness: three checks fail and the run reports the first only
FirstOfThreeReported ==
    /\ CalculateRun
    /\ FailingChecks = <<"fuel", "price", "zero_time">>
    /\ errors = <<"fuel">>

(***************************************************************************)
(* The break-even month and the payback.                                   *)
(***************************************************************************)
Recoverable == FGtZero(ss.neto_mensual)

\* m = max(1, ceiling(x)) for a finite x >= 0
MaxOneCeiling(x, m) ==
    IF m = 1 THEN FLe(x, FromInt(1))
    ELSE FCmp(FromInt(m - 1), x) < 0 /\ FLe(x, FromInt(m))

BeyondHorizon(x) == x.inf \/ FCmp(x, FromInt(meses)) > 0

BreakEvenOfPayback(mes) ==
    /\ ~mes.none => (Recoverable /\ MaxOneCeiling(ss.meses_para_recuperar, mes.val))
    /\ (~Recoverable \/ BeyondHorizon(ss.meses_para_recuperar)) => mes = NaN

\* C25: in every successful run the simulation reports a break-even month
\* only if the monthly net benefit is > 0, and the month is then
\* max(1, ceiling(paybackMonths)); it reports none when the payback is not
\* recoverable or is more than 60 months.
BreakEvenFollowsPayback ==
    (tabs /\ computed) => BreakEvenOfPayback(roi_mes(data_evolucion(ss, inp)))

(***************************************************************************)
(* Division by zero.                                                       *)
(***************************************************************************)
\* C26: no Calculate run divides by zero: none ends with ZeroDivisionError,
\* and a run that computes has total_minutes > 0, a period of at least one
\* day and, where it divides by neto_mensual and by neto_mensual / 30, a
\* neto_mensual > 0 and a finite payback.
NoDivisionByZero ==
    CalculateRun =>
        /\ errors /= <<"ZeroDivisionError">>
        /\ computed =>
               /\ ss.total_minutes > 0
               /\ PeriodDays >= 1
               /\ Recoverable <=> ~ss.roi_days.inf

(***************************************************************************)
(* The stored record over a sequence of runs.                              *)
(***************************************************************************)
RecordConsistent ==
    /\ ss.total_minutes = ss.idle_minutes + ss.moving_minutes
    /\ ss.calculado =>
           /\ ss.total_minutes > 0
           /\ FAdd(ss.idle_percentage, ss.moving_percentage) = Hundred

\* C27: 'calculado' is False at first, becomes True only in an execution
\* that computes and never goes back to False; in every state
\* total_minutes = idle_minutes + moving_minutes, and when calculado is
\* True, total_minutes > 0 and idle_percentage + moving_percentage = 100.
StoredRecordStaysConsistent ==
    /\ ~ss.calculado
    /\ [][ /\ ss.calculado => ss'.calculado
           /\ (~ss.calculado /\ ss'.calculado) => computed' ]_vars
    /\ []RecordConsistent
====
